---- MODULE Spec2Model ----
(***************************************************************************)
(* A model of github_analytics/analyze.py: the PRAnalyzer instance (its    *)
(* attributes, download() and the reporting methods) and the module-level  *)
(* helpers _parse_pr_title_verb, _cnt_pr_passes and _get_pr_meta_info.     *)
(*                                                                         *)
(* Conventions.  Strings the code inspects character by character (base    *)
(* labels, titles) are sequences of one-character strings.  Timestamps are *)
(* whole hours, so (merged_at - created_at).total_seconds() / 3600 is the  *)
(* difference of two integers.  Python's None is NoTime for a timestamp,   *)
(* NoHours for hours_to_merge, and the empty sequence None for an          *)
(* attribute that otherwise holds a list (Some(x) = <<x>>).  PyGithub      *)
(* users compare by login and pull requests by URL: a pull request's       *)
(* identity is its id field, whatever its other attributes say.            *)
(***************************************************************************)
EXTENDS Integers, Sequences, FiniteSets, TLC

VARIABLES
    repo,        \* self.repo
    org,         \* self.org
    team,        \* self.team
    team_users,  \* self.team_users
    prs,         \* self.prs
    valid_prs,   \* self.valid_prs
    pr_to_meta,  \* self.pr_to_meta, in insertion order
    report,      \* what the last call on the instance returned or raised
    probe,       \* the pull request handed to a module-level helper
    out          \* what the helper returned

vars == <<repo, org, team, team_users, prs, valid_prs, pr_to_meta, report, probe, out>>

instance_vars == <<repo, org, team, team_users, prs, valid_prs, pr_to_meta, report>>

snapshot == <<repo, team_users, prs, valid_prs, pr_to_meta>>

----------------------------------------------------------------------------
(* Bounds of the model. *)

MaxTime == 2

MaxEvents == 3

MaxPrId == 2

----------------------------------------------------------------------------
(* Values. *)

Users == {"alice", "bob", "carol"}

None == <<>>

Some(x) == <<x>>

NoTime == 0

NoHours == 0 - 1

Times == 1..MaxTime

SeqsUpTo(S, n) == UNION {[1..k -> S] : k \in 0..n}

Range(s) == {s[i] : i \in 1..Len(s)}

----------------------------------------------------------------------------
(* _cnt_pr_passes *)

ReviewEventsAnyAuthor(reviews, author) ==
    [i \in 1..Len(reviews) |-> <<"review", reviews[i].submitted_at>>]

ReviewEvents(reviews, author) ==
    LET kept == SelectSeq(reviews, LAMBDA review : review.user # author)
    IN  [i \in 1..Len(kept) |-> <<"review", kept[i].submitted_at>>]

CommitEvents(commits) ==
    [i \in 1..Len(commits) |-> <<"commit", commits[i].date>>]

PrEventsCommitsFirst(reviews, commits, author) ==
    CommitEvents(commits) \o ReviewEvents(reviews, author)

PrEvents(reviews, commits, author) ==
    ReviewEvents(reviews, author) \o CommitEvents(commits)

\* list.sort(key=lambda e: e[1]) is stable: an event goes after every event
\* before it in the list whose timestamp is not greater.
InsertByTime(e, s) ==
    LET p == Cardinality({i \in 1..Len(s) : s[i][2] <= e[2]})
    IN  SubSeq(s, 1, p) \o <<e>> \o SubSeq(s, p + 1, Len(s))

RECURSIVE SortByTime(_)
SortByTime(events) ==
    IF events = <<>> THEN <<>>
    ELSE InsertByTime(events[Len(events)],
                      SortByTime(SubSeq(events, 1, Len(events) - 1)))

RECURSIVE ScanPasses(_, _, _)
ScanPasses(events, last, passes) ==
    IF events = <<>> THEN passes
    ELSE LET evt_type == Head(events)[1]
         IN  ScanPasses(Tail(events), evt_type,
                        IF last = "commit" /\ evt_type = "review"
                        THEN passes + 1 ELSE passes)

\* The local list events once events.sort() has run.
SortedEvents(reviews, commits, author) ==
    SortByTime(PrEvents(reviews, commits, author))

CntPrPassesLastReview(reviews, commits, author) ==
    ScanPasses(SortedEvents(reviews, commits, author), "review", 0)

CntPrPasses(reviews, commits, author) ==
    ScanPasses(SortedEvents(reviews, commits, author), "commit", 0)

----------------------------------------------------------------------------
(* _get_pr_meta_info *)

ReviewersKeepAuthor(pr) ==
    pr.requested \cup {pr.reviews[i].user : i \in 1..Len(pr.reviews)}

Reviewers(pr) ==
    (pr.requested \cup {pr.reviews[i].user : i \in 1..Len(pr.reviews)}) \ {pr.user}

HoursToMerge(pr) ==
    IF pr.merged_at # NoTime THEN pr.merged_at - pr.created_at ELSE NoHours

GetPrMetaInfo(pr) ==
    [reviewers      |-> Reviewers(pr),
     review_passes  |-> CntPrPasses(pr.reviews, pr.commits, pr.user),
     hours_to_merge |-> HoursToMerge(pr),
     total_changes  |-> pr.additions + pr.deletions]

----------------------------------------------------------------------------
(* _parse_pr_title_verb *)

UpperCase ==
    <<"A", "B", "C", "D", "E", "F", "G", "H", "I", "J", "K", "L", "M",
      "N", "O", "P", "Q", "R", "S", "T", "U", "V", "W", "X", "Y", "Z">>

LowerCase ==
    <<"a", "b", "c", "d", "e", "f", "g", "h", "i", "j", "k", "l", "m",
      "n", "o", "p", "q", "r", "s", "t", "u", "v", "w", "x", "y", "z">>

Digits == {"0", "1", "2", "3", "4", "5", "6", "7", "8", "9"}

\* The class [\w\-& ] of the pattern.
TagChars == Range(UpperCase) \cup Range(LowerCase) \cup Digits \cup {"_", "-", "&", " "}

ToLower(c) ==
    IF c \in Range(UpperCase)
    THEN LowerCase[CHOOSE i \in 1..Len(UpperCase) : UpperCase[i] = c]
    ELSE c

\* Where a match of \[[\w\-& ]+\] that starts at s[1] ends, or 0: the class
\* holds no "]", so the run of class characters is the longest one.
TagEnd(s) ==
    IF s = <<>> \/ s[1] # "[" THEN 0
    ELSE LET stops == {j \in 2..Len(s) : s[j] \notin TagChars}
             j == IF stops = {} THEN 0
                  ELSE CHOOSE k \in stops : \A m \in stops : k <= m
         IN  IF j >= 3 /\ j < Len(s) /\ s[j] = "]" /\ s[j + 1] = " "
             THEN j + 1 ELSE 0

\* re.sub(r"\[[\w\-& ]+\] ", "", title): every match goes, left to right.
RECURSIVE StripTags(_)
StripTags(s) ==
    IF s = <<>> THEN <<>>
    ELSE IF TagEnd(s) > 0 THEN StripTags(SubSeq(s, TagEnd(s) + 1, Len(s)))
    ELSE <<s[1]>> \o StripTags(Tail(s))

\* s.split(" ")[0]
FirstToken(s) ==
    LET spaces == {j \in 1..Len(s) : s[j] = " "}
    IN  IF spaces = {} THEN s
        ELSE SubSeq(s, 1, (CHOOSE k \in spaces : \A m \in spaces : k <= m) - 1)

ParsePrTitleVerb(pr) ==
    LET stripped == StripTags(pr.title)
        lowered  == [i \in 1..Len(stripped) |-> ToLower(stripped[i])]
        verb     == SelectSeq(FirstToken(lowered), LAMBDA c : c # ":")
    IN  IF verb \in {<<"a", "d", "d", "i", "n", "g">>, <<"a", "d", "d", "e", "d">>}
        THEN <<"a", "d", "d">>
        ELSE IF verb = <<"f", "i", "x", "i", "n", "g">> THEN <<"f", "i", "x">>
        ELSE IF verb = <<"r", "e", "m", "o", "v", "i", "n", "g">>
        THEN <<"r", "e", "m", "o", "v", "e">>
        ELSE verb

----------------------------------------------------------------------------
(* What the hosting API may answer.  A pull request keeps its id, author,  *)
(* title and creation time.  While it is open (stage 0) its base branch    *)
(* can be changed; once it is reviewed and merged (stage 1) it cannot.     *)
(* The pull requests before the newest one are merged, each into the       *)
(* branch OlderLabel gives it; the newest one is open or merged, on any    *)
(* of the branches.                                                        *)

MainMarker == <<":", "m", "a", "i", "n">>

LabelOwnerMain == <<"o", ":", "m", "a", "i", "n">>

LabelRefsHeadsMain ==
    <<"r", "e", "f", "s", "/", "h", "e", "a", "d", "s", "/", "m", "a", "i", "n">>

LabelRefsHeadsDev ==
    <<"r", "e", "f", "s", "/", "h", "e", "a", "d", "s", "/", "d", "e", "v">>

LabelOrder == <<LabelOwnerMain, LabelRefsHeadsMain, LabelRefsHeadsDev>>

Labels == Range(LabelOrder)

OlderLabel(i) == LabelOrder[((i - 1) % Len(LabelOrder)) + 1]

\* Only the newest pull request can still be open; the older ones are merged.
Stages(i) == IF i = MaxPrId THEN {0, 1} ELSE {1}

Rosters == {{"alice", "carol"}, {"alice", "bob", "carol"}}

AuthorOrder == <<"alice", "bob", "carol">>

\* The newest pull request is by the first user, the one before it by the second, ...
PrAuthor(i) == AuthorOrder[((MaxPrId - i) % Len(AuthorOrder)) + 1]

PrTitle(i) ==
    IF i % 2 = 1
    THEN <<"[", "T", "-", "x", "]", " ", "A", "d", "d", "e", "d", " ", "f", "o", "o">>
    ELSE <<"F", "i", "x", ":", " ", "b", "u", "g">>

\* The reviewer a pull request's author asks: the next user in AuthorOrder.
PrReviewer(i) == AuthorOrder[((MaxPrId - i + 1) % Len(AuthorOrder)) + 1]

\* The user after that one, who reviews without having been asked.
PrOtherReviewer(i) == AuthorOrder[((MaxPrId - i + 2) % Len(AuthorOrder)) + 1]

Pull(i, label, stage) ==
    [id         |-> i,
     user       |-> PrAuthor(i),
     base_label |-> label,
     title      |-> PrTitle(i),
     created_at |-> 1,
     merged_at  |-> IF stage = 0 THEN NoTime ELSE MaxTime + i,
     additions  |-> i + stage,
     deletions  |-> stage,
     requested  |-> IF stage = 0 THEN {PrReviewer(i), PrAuthor(i)} ELSE {},
     reviews    |-> IF stage = 0 THEN <<>>
                    ELSE <<[user |-> PrReviewer(i), submitted_at |-> 1],
                           [user |-> PrOtherReviewer(i), submitted_at |-> MaxTime],
                           [user |-> PrAuthor(i), submitted_at |-> MaxTime]>>,
     commits    |-> IF stage = 0 THEN <<[author |-> PrAuthor(i), date |-> 1]>>
                    ELSE <<[author |-> PrAuthor(i), date |-> 1],
                           [author |-> PrAuthor(i), date |-> MaxTime]>>]

VersionsOf(i) ==
    IF i = MaxPrId
    THEN {Pull(i, label, stage) : label \in Labels, stage \in Stages(i)}
    ELSE {Pull(i, OlderLabel(i), stage) : stage \in Stages(i)}

\* The answers of get_pulls(state="all") for a repository with n pull
\* requests: all of them in the API's order, newest first, each in one of
\* its versions.
RECURSIVE ListsOf(_)
ListsOf(n) ==
    IF n = 0 THEN {<<>>}
    ELSE {<<v>> \o r : v \in VersionsOf(n), r \in ListsOf(n - 1)}

PullLists == UNION {ListsOf(n) : n \in 0..MaxPrId}

----------------------------------------------------------------------------
(* PRAnalyzer.download *)

EndsWith(s, suffix) ==
    /\ Len(s) >= Len(suffix)
    /\ SubSeq(s, Len(s) - Len(suffix) + 1, Len(s)) = suffix

QualifiesEndsWithMain(pr, members) ==
    pr.user \in members /\ EndsWith(pr.base_label, Tail(MainMarker))

Qualifies(pr, members) ==
    pr.user \in members /\ EndsWith(pr.base_label, MainMarker)

ValidPrs(pulls, members) ==
    SelectSeq(pulls, LAMBDA pr : Qualifies(pr, members))

HasMeta(map, pr) == \E i \in 1..Len(map) : map[i].pr.id = pr.id

MetaOf(map, pr) == map[CHOOSE i \in 1..Len(map) : map[i].pr.id = pr.id].meta

\* map[pr] = meta: an equal key keeps its place and its key object.
PutMeta(map, pr, meta) ==
    IF HasMeta(map, pr)
    THEN [i \in 1..Len(map) |->
            IF map[i].pr.id = pr.id THEN [pr |-> map[i].pr, meta |-> meta] ELSE map[i]]
    ELSE Append(map, [pr |-> pr, meta |-> meta])

\* The loop of download() after k of its iterations.
RECURSIVE StoreMetas(_, _, _)
StoreMetas(map, valid, k) ==
    IF k = 0 THEN map
    ELSE PutMeta(StoreMetas(map, valid, k - 1), valid[k], GetPrMetaInfo(valid[k]))

Raised(op) == [op |-> op, ok |-> FALSE, df |-> <<>>]

Returned(op, df) == [op |-> op, ok |-> TRUE, df |-> df]

Merged(pr) == pr.merged_at # NoTime

\* What get_pulls can answer after the answer self.prs holds: a repository
\* loses no pull request, and a merged pull request does not change.
CanFollow(pulls) ==
    IF prs = None THEN TRUE
    ELSE \A i \in 1..Len(prs[1]) :
             \E j \in 1..Len(pulls) :
                 /\ pulls[j].id = prs[1][i].id
                 /\ Merged(prs[1][i]) => pulls[j] = prs[1][i]

\* download() when one of its fetches raises: the assignments made before
\* the fetch stay.
DownloadRaises ==
    /\ report' = Raised("download")
    /\ UNCHANGED <<probe, out>>
    /\ \/ \* get_repo raises
          UNCHANGED <<repo, org, team, team_users, prs, valid_prs, pr_to_meta>>
       \/ \* get_organization raises
          /\ repo' = "repo"
          /\ UNCHANGED <<org, team, team_users, prs, valid_prs, pr_to_meta>>
       \/ \* get_teams raises, or no team has the name
          /\ repo' = "repo"
          /\ org' = "org"
          /\ UNCHANGED <<team, team_users, prs, valid_prs, pr_to_meta>>
       \/ \* get_members raises
          /\ repo' = "repo"
          /\ org' = "org"
          /\ team' = "team"
          /\ UNCHANGED <<team_users, prs, valid_prs, pr_to_meta>>
       \/ \* get_pulls raises
          /\ repo' = "repo"
          /\ org' = "org"
          /\ team' = "team"
          /\ \E members \in Rosters : team_users' = Some(members)
          /\ UNCHANGED <<prs, valid_prs, pr_to_meta>>
       \/ \* a fetch of _get_pr_meta_info raises, k pull requests done
          /\ repo' = "repo"
          /\ org' = "org"
          /\ team' = "team"
          /\ \E members \in Rosters, pulls \in PullLists :
                \E k \in 0..(Len(ValidPrs(pulls, members)) - 1) :
                    /\ CanFollow(pulls)
                    /\ team_users' = Some(members)
                    /\ prs' = Some(pulls)
                    /\ valid_prs' = Some(ValidPrs(pulls, members))
                    /\ pr_to_meta' = StoreMetas(pr_to_meta, ValidPrs(pulls, members), k)

\* download() when every fetch answers.
DownloadReturns ==
    /\ repo' = "repo"
    /\ org' = "org"
    /\ team' = "team"
    /\ \E members \in Rosters, pulls \in PullLists :
          /\ CanFollow(pulls)
          /\ team_users' = Some(members)
          /\ prs' = Some(pulls)
          /\ valid_prs' = Some(ValidPrs(pulls, members))
          /\ pr_to_meta' = StoreMetas(pr_to_meta, ValidPrs(pulls, members),
                                      Len(ValidPrs(pulls, members)))
    /\ report' = Returned("download", <<>>)
    /\ UNCHANGED <<probe, out>>

Download == DownloadRaises \/ DownloadReturns

----------------------------------------------------------------------------
(* The reporting methods.  A report is the table (df) the method builds;   *)
(* the figure drawn from it belongs to the charting library.  A table the  *)
(* code fills from a dict of counts or from a set is a function of its     *)
(* keys, a table it fills from a list is a sequence of rows.               *)

DefaultMaxHours == 120

ScatterMaxHours == 500

DefaultVerbs == 10

NaN == 0 - 1

Min(a, b) == IF a <= b THEN a ELSE b

MaxOf(S) == IF S = {} THEN NaN ELSE CHOOSE x \in S : \A y \in S : y <= x

\* The caps a caller passes as max_hours: the method's default and a small one.
MaxHoursInputs(default) == {2, default}

ReportFrame == UNCHANGED <<repo, org, team, team_users, prs, valid_prs, pr_to_meta, probe, out>>

\* [... for pr in self.valid_prs if pr.merged_at]
MergedValidPrs == SelectSeq(valid_prs[1], Merged)

\* Whether self.pr_to_meta[pr].hours_to_merge can be read and capped for
\* every merged pull request of self.valid_prs: iterating None, a missing
\* key and min(max_hours, None) raise.
CanReadValidMetas ==
    /\ valid_prs # None
    /\ \A i \in 1..Len(MergedValidPrs) : HasMeta(pr_to_meta, MergedValidPrs[i])

CanCapValidHours ==
    /\ CanReadValidMetas
    /\ \A i \in 1..Len(MergedValidPrs) :
          MetaOf(pr_to_meta, MergedValidPrs[i]).hours_to_merge # NoHours

CappedHours(max_hours, i) ==
    Min(max_hours, MetaOf(pr_to_meta, MergedValidPrs[i]).hours_to_merge)

GetSummaryStats ==
    /\ report' = Returned("get_summary_stats",
          LET rows == SelectSeq(pr_to_meta, LAMBDA e : Merged(e.pr))
          IN  [i \in 1..Len(rows) |->
                 <<rows[i].meta.review_passes, rows[i].meta.hours_to_merge,
                   rows[i].meta.total_changes, Cardinality(rows[i].meta.reviewers)>>])
    /\ ReportFrame

PlotHoursToMergeHistogram ==
    /\ \E max_hours \in MaxHoursInputs(DefaultMaxHours) :
          report' = IF CanCapValidHours
                    THEN Returned("plot_hours_to_merge_histogram",
                             [i \in 1..Len(MergedValidPrs) |-> <<CappedHours(max_hours, i)>>])
                    ELSE Raised("plot_hours_to_merge_histogram")
    /\ ReportFrame

PlotHoursToMergeByAuthorBoxplot ==
    /\ \E max_hours \in MaxHoursInputs(DefaultMaxHours) :
          report' = IF CanCapValidHours
                    THEN Returned("plot_hours_to_merge_by_author_boxplot",
                             [i \in 1..Len(MergedValidPrs) |->
                                <<CappedHours(max_hours, i), MergedValidPrs[i].user>>])
                    ELSE Raised("plot_hours_to_merge_by_author_boxplot")
    /\ ReportFrame

\* The reviewers of the stored metadata who are in self.team_users.
TeamReviewers(meta) == {u \in meta.reviewers : u \in team_users[1]}

AllTeamReviewers == UNION {TeamReviewers(pr_to_meta[i].meta) : i \in 1..Len(pr_to_meta)}

PlotReviewerProportionOfPrsPie ==
    /\ report' = Returned("plot_reviewer_proportion_of_prs_pie",
          [u \in AllTeamReviewers |->
             Cardinality({i \in 1..Len(pr_to_meta) : u \in pr_to_meta[i].meta.reviewers})])
    /\ ReportFrame

RECURSIVE TotalChanges(_)
TotalChanges(entries) ==
    IF entries = <<>> THEN 0
    ELSE Head(entries).meta.total_changes + TotalChanges(Tail(entries))

\* _get_changes_by_authors_and_reviewers
PrChangesByAuthor ==
    [u \in {pr_to_meta[i].pr.user : i \in 1..Len(pr_to_meta)} |->
        TotalChanges(SelectSeq(pr_to_meta, LAMBDA e : e.pr.user = u))]

PrChangesByReviewer ==
    [u \in AllTeamReviewers |->
        TotalChanges(SelectSeq(pr_to_meta, LAMBDA e : u \in e.meta.reviewers))]

PlotReviewerProportionOfChangesPie ==
    /\ report' = Returned("plot_reviewer_proportion_of_changes_pie", PrChangesByReviewer)
    /\ ReportFrame

PlotAuthorProportionOfChangesPie ==
    /\ report' = Returned("plot_author_proportion_of_changes_pie", PrChangesByAuthor)
    /\ ReportFrame

\* df_author.join(df_reviewer): a row per author, changes_reviewed NaN for an
\* author who reviewed nothing; max() of two values keeps a NaN that comes first.
PlotChangesReviewedVsCreatedScatter ==
    /\ report' = Returned("plot_changes_reviewed_vs_created_scatter",
          LET created  == PrChangesByAuthor
              reviewed == PrChangesByReviewer
              df == [u \in DOMAIN created |->
                       <<created[u], IF u \in DOMAIN reviewed THEN reviewed[u] ELSE NaN>>]
              reviewed_max == MaxOf({df[u][2] : u \in DOMAIN df} \ {NaN})
              created_max  == MaxOf({df[u][1] : u \in DOMAIN df})
          IN  [df |-> df,
               mx_val |-> IF reviewed_max = NaN \/ reviewed_max >= created_max
                          THEN reviewed_max ELSE created_max])
    /\ ReportFrame

\* collections.Counter(...).most_common(n): the verbs in the order first
\* seen, sorted by falling count (a stable sort), the first n of them.
InsertByCount(e, s) ==
    LET p == Cardinality({i \in 1..Len(s) : s[i][2] >= e[2]})
    IN  SubSeq(s, 1, p) \o <<e>> \o SubSeq(s, p + 1, Len(s))

RECURSIVE SortByCount(_)
SortByCount(items) ==
    IF items = <<>> THEN <<>>
    ELSE InsertByCount(items[Len(items)], SortByCount(SubSeq(items, 1, Len(items) - 1)))

MostCommon(verbs, n) ==
    LET first  == SelectSeq([i \in 1..Len(verbs) |-> i],
                            LAMBDA i : \A j \in 1..(i - 1) : verbs[j] # verbs[i])
        items  == [k \in 1..Len(first) |->
                     <<verbs[first[k]],
                       Cardinality({j \in 1..Len(verbs) : verbs[j] = verbs[first[k]]})>>]
        sorted == SortByCount(items)
    IN  SubSeq(sorted, 1, Min(n, Len(sorted)))

\* A variant that puts self.valid_prs in the order of the table it returns.
PlotPrVerbPieReordering ==
    /\ valid_prs # None
    /\ valid_prs' = Some([i \in 1..Len(valid_prs[1]) |->
                             valid_prs[1][Len(valid_prs[1]) + 1 - i]])
    /\ report' = Returned("plot_pr_verb_pie",
                     MostCommon([i \in 1..Len(valid_prs[1]) |->
                                    ParsePrTitleVerb(valid_prs[1][i])], DefaultVerbs))
    /\ UNCHANGED <<repo, org, team, team_users, prs, pr_to_meta, probe, out>>

PlotPrVerbPie ==
    /\ \E n \in {1, DefaultVerbs} :
          report' = IF valid_prs # None
                    THEN Returned("plot_pr_verb_pie",
                             MostCommon([i \in 1..Len(valid_prs[1]) |->
                                            ParsePrTitleVerb(valid_prs[1][i])], n))
                    ELSE Raised("plot_pr_verb_pie")
    /\ ReportFrame

\* The entries plot_hours_to_merge_user_heatmap adds hours for.
HeatmapEntries(author, reviewer) ==
    SelectSeq(pr_to_meta, LAMBDA e :
        /\ Merged(e.pr)
        /\ e.pr.user = author
        /\ reviewer \in TeamReviewers(e.meta))

RECURSIVE SumCappedHours(_, _)
SumCappedHours(entries, max_hours) ==
    IF entries = <<>> THEN 0
    ELSE Min(max_hours, Head(entries).meta.hours_to_merge)
         + SumCappedHours(Tail(entries), max_hours)

\* min(max_hours, None) raises in the loop, sorted() over None raises, and
\* usernames[::-1].index(author) raises for an author who is not in the team.
HeatmapCanBuild ==
    /\ team_users # None
    /\ \A i \in 1..Len(pr_to_meta) :
          (Merged(pr_to_meta[i].pr) /\ TeamReviewers(pr_to_meta[i].meta) # {}) =>
              /\ pr_to_meta[i].meta.hours_to_merge # NoHours
              /\ pr_to_meta[i].pr.user \in team_users[1]

\* A cell is <<sum of hours, number of pull requests>>: the mean the code
\* stores is their quotient, and a cell no pull request fills stays 0.
PlotHoursToMergeUserHeatmap ==
    /\ \E max_hours \in MaxHoursInputs(DefaultMaxHours) :
          report' = IF HeatmapCanBuild
                    THEN Returned("plot_hours_to_merge_user_heatmap",
                             [cell \in team_users[1] \X team_users[1] |->
                                <<SumCappedHours(HeatmapEntries(cell[1], cell[2]), max_hours),
                                  Len(HeatmapEntries(cell[1], cell[2]))>>])
                    ELSE Raised("plot_hours_to_merge_user_heatmap")
    /\ ReportFrame

PlotChangesVsHoursToMergeScatter ==
    /\ \E max_hours \in MaxHoursInputs(ScatterMaxHours) :
          report' = IF CanCapValidHours
                    THEN Returned("plot_changes_vs_hours_to_merge_scatter",
                             [i \in 1..Len(MergedValidPrs) |->
                                <<CappedHours(max_hours, i),
                                  MetaOf(pr_to_meta, MergedValidPrs[i]).total_changes,
                                  MergedValidPrs[i].user>>])
                    ELSE Raised("plot_changes_vs_hours_to_merge_scatter")
    /\ ReportFrame

\* The rows <<review_passes, login>> of the merged pull requests of
\* self.valid_prs, the login being the pull request's author.
PassesByAuthorRows ==
    [i \in 1..Len(MergedValidPrs) |->
        <<MetaOf(pr_to_meta, MergedValidPrs[i]).review_passes, MergedValidPrs[i].user>>]

PlotReviewPassesByAuthorBoxplot ==
    /\ report' = IF CanReadValidMetas
                 THEN Returned("plot_review_passes_by_author_boxplot", PassesByAuthorRows)
                 ELSE Raised("plot_review_passes_by_author_boxplot")
    /\ ReportFrame

\* What the loop of plot_review_passes_by_reviewer_boxplot collects: for each
\* login, the review_passes of the merged pull requests that user reviews.
PassesByReviewerLoop ==
    [u \in AllTeamReviewers |->
        LET mine == SelectSeq(pr_to_meta, LAMBDA e : Merged(e.pr) /\ u \in e.meta.reviewers)
        IN  [i \in 1..Len(mine) |-> mine[i].meta.review_passes]]

\* passes and users are assigned again after the loop, from self.valid_prs
\* and the pull requests' authors; the table is built from those.
PlotReviewPassesByReviewerBoxplot ==
    /\ report' = LET collected == PassesByReviewerLoop
                 IN  IF CanReadValidMetas
                     THEN Returned("plot_review_passes_by_reviewer_boxplot", PassesByAuthorRows)
                     ELSE Raised("plot_review_passes_by_reviewer_boxplot")
    /\ ReportFrame

ReportOps ==
    {"get_summary_stats",
     "plot_hours_to_merge_histogram",
     "plot_hours_to_merge_by_author_boxplot",
     "plot_reviewer_proportion_of_prs_pie",
     "plot_reviewer_proportion_of_changes_pie",
     "plot_author_proportion_of_changes_pie",
     "plot_changes_reviewed_vs_created_scatter",
     "plot_pr_verb_pie",
     "plot_hours_to_merge_user_heatmap",
     "plot_changes_vs_hours_to_merge_scatter",
     "plot_review_passes_by_author_boxplot",
     "plot_review_passes_by_reviewer_boxplot"}

----------------------------------------------------------------------------
(* The helpers on their own: a pull request drawn from the bounded inputs, *)
(* then one call of a helper on it.                                        *)

ReviewInputs == [user : Users, submitted_at : Times]

CommitInputs == [author : Users, date : Times]

ProbePull(u, rq, rv, cm) ==
    [id |-> 1, user |-> u, requested |-> rq, reviews |-> rv, commits |-> cm,
     created_at |-> 1, merged_at |-> NoTime, additions |-> 1, deletions |-> 1]

NoCall == [fn |-> "none"]

InstanceInit ==
    /\ repo = "None"
    /\ org = "None"
    /\ team = "None"
    /\ team_users = None
    /\ prs = None
    /\ valid_prs = None
    /\ pr_to_meta = <<>>
    /\ report = [op |-> "__init__", ok |-> TRUE, df |-> <<>>]

HelperInit ==
    /\ InstanceInit
    /\ \E u \in Users, rq \in SUBSET Users, rv \in SeqsUpTo(ReviewInputs, MaxEvents) :
           \E cm \in SeqsUpTo(CommitInputs, MaxEvents - Len(rv)) :
               probe = ProbePull(u, rq, rv, cm)
    /\ out = NoCall

CallCntPrPasses ==
    /\ out = NoCall
    /\ out' = [fn |-> "_cnt_pr_passes",
               events |-> SortedEvents(probe.reviews, probe.commits, probe.user),
               result |-> CntPrPasses(probe.reviews, probe.commits, probe.user)]
    /\ UNCHANGED <<instance_vars, probe>>

CallGetPrMetaInfo ==
    /\ out = NoCall
    /\ out' = [fn |-> "_get_pr_meta_info", result |-> GetPrMetaInfo(probe)]
    /\ UNCHANGED <<instance_vars, probe>>

HelperNext == CallCntPrPasses \/ CallGetPrMetaInfo

HelperSpec == HelperInit /\ [][HelperNext]_vars

----------------------------------------------------------------------------
(* One PRAnalyzer instance and the calls made on it. *)

Init ==
    /\ InstanceInit
    /\ probe = ProbePull("alice", {}, <<>>, <<>>)
    /\ out = NoCall

Reports ==
    \/ GetSummaryStats
    \/ PlotHoursToMergeHistogram
    \/ PlotHoursToMergeByAuthorBoxplot
    \/ PlotReviewerProportionOfPrsPie
    \/ PlotReviewerProportionOfChangesPie
    \/ PlotAuthorProportionOfChangesPie
    \/ PlotChangesReviewedVsCreatedScatter
    \/ PlotPrVerbPie
    \/ PlotHoursToMergeUserHeatmap
    \/ PlotChangesVsHoursToMergeScatter
    \/ PlotReviewPassesByAuthorBoxplot
    \/ PlotReviewPassesByReviewerBoxplot

Next == Download \/ Reports

Spec == Init /\ [][Next]_vars

\* The behaviours of Spec in which no download() raises.
ReturningNext == DownloadReturns \/ Reports

ReturningSpec == Init /\ [][ReturningNext]_vars

----------------------------------------------------------------------------
(* Properties of the helpers, under HelperSpec. *)

Count(s, P(_)) == Cardinality({i \in 1..Len(s) : P(s[i])})

\* Reviews that start a pass: a review that is the first event or comes
\* right after a commit.
PassStarts(s) ==
    Cardinality({i \in 1..Len(s) :
        s[i][1] = "review" /\ (i = 1 \/ s[i - 1][1] = "commit")})

\* Positions at which a commit event is immediately followed by a review event.
CommitReviewAdjacencies(s) ==
    Cardinality({i \in 2..Len(s) : s[i - 1][1] = "commit" /\ s[i][1] = "review"})

ExampleReviews ==
    <<[user |-> "carol", submitted_at |-> 3],
      [user |-> "carol", submitted_at |-> 5],
      [user |-> "dave", submitted_at |-> 6]>>

ExampleCommits ==
    <<[author |-> "alice", date |-> 1],
      [author |-> "alice", date |-> 2],
      [author |-> "alice", date |-> 4]>>

\* C3: the events _cnt_pr_passes scans are the reviews by users other than
\* the pull request's author and the commits of every author, in timestamp
\* order; scanned from the state "last event was a commit", the result is the
\* number of reviews whose preceding state is "commit" (the first event, or
\* the event after a commit), and it is 2 for the events [commit@1, commit@2,
\* review@3, commit@4, review@5, review@6].
C3_PassesCountReviewsAfterCommitState ==
    out.fn = "_cnt_pr_passes" =>
        /\ \A i \in 1..(Len(out.events) - 1) : out.events[i][2] <= out.events[i + 1][2]
        /\ \A t \in Times :
            /\ Count(out.events, LAMBDA e : e = <<"review", t>>)
                 = Count(probe.reviews,
                         LAMBDA r : r.user # probe.user /\ r.submitted_at = t)
            /\ Count(out.events, LAMBDA e : e = <<"commit", t>>)
                 = Count(probe.commits, LAMBDA c : c.date = t)
        /\ Len(out.events)
             = Count(probe.reviews, LAMBDA r : r.user # probe.user) + Len(probe.commits)
        /\ out.result = PassStarts(out.events)
        /\ CntPrPasses(ExampleReviews, ExampleCommits, "alice") = 2

\* A call whose input holds a review by the author, a commit by someone else
\* and a review by someone else, the commit first.
C3_Witness ==
    /\ out.fn = "_cnt_pr_passes"
    /\ \E i \in 1..Len(probe.reviews) : probe.reviews[i].user = probe.user
    /\ \E i \in 1..Len(probe.commits) : probe.commits[i].author # probe.user
    /\ Len(out.events) = 2
    /\ out.events[1][1] = "commit"
    /\ out.events[2][1] = "review"
    /\ out.result = 1

\* C4 as stated: review_passes is the number of positions of the sorted event
\* stream at which a commit event is immediately followed by a review event.
C4_PassesAreCommitReviewAdjacencies ==
    out.fn = "_get_pr_meta_info" =>
        out.result.review_passes
            = CommitReviewAdjacencies(SortedEvents(probe.reviews, probe.commits, probe.user))

\* C4, amended: review_passes is the number of commit->review adjacencies of
\* the sorted event stream, plus one when the stream starts with a review;
\* it is 0 for an empty stream.
C4_PassesAreAdjacenciesPlusLeadingReview ==
    out.fn = "_get_pr_meta_info" =>
        LET s == SortedEvents(probe.reviews, probe.commits, probe.user)
        IN  /\ out.result.review_passes
                 = CommitReviewAdjacencies(s)
                   + (IF s # <<>> /\ s[1][1] = "review" THEN 1 ELSE 0)
            /\ s = <<>> => out.result.review_passes = 0

\* A stream that starts with a review and also holds a commit followed by a review.
C4_Witness ==
    /\ out.fn = "_get_pr_meta_info"
    /\ LET s == SortedEvents(probe.reviews, probe.commits, probe.user)
       IN  /\ Len(s) = 3
           /\ s[1][1] = "review"
           /\ s[2][1] = "commit"
           /\ s[3][1] = "review"
    /\ out.result.review_passes = 2

\* C5 as stated: a commit and a review with the same timestamp are scanned
\* commit first.
C5_TieCommitBeforeReview ==
    out.fn = "_cnt_pr_passes" =>
        \A i, j \in 1..Len(out.events) :
            (/\ out.events[i][1] = "commit"
             /\ out.events[j][1] = "review"
             /\ out.events[i][2] = out.events[j][2]) => i < j

\* C5, amended: a commit and a review with the same timestamp are scanned
\* review first, the order in which the event list is built.
C5_TieReviewBeforeCommit ==
    out.fn = "_cnt_pr_passes" =>
        \A i, j \in 1..Len(out.events) :
            (/\ out.events[i][1] = "commit"
             /\ out.events[j][1] = "review"
             /\ out.events[i][2] = out.events[j][2]) => j < i

\* A commit and a review by someone else with the same timestamp.
C5_Witness ==
    /\ out.fn = "_cnt_pr_passes"
    /\ \E i, j \in 1..Len(out.events) :
           /\ out.events[i][1] = "commit"
           /\ out.events[j][1] = "review"
           /\ out.events[i][2] = out.events[j][2]

\* C6: the reviewers of a PRMeta are the requested reviewers and the authors
\* of the reviews, without the pull request's author.
C6_ReviewersExcludeAuthor ==
    out.fn = "_get_pr_meta_info" =>
        /\ out.result.reviewers
             = {u \in Users :
                   /\ u # probe.user
                   /\ \/ u \in probe.requested
                      \/ \E i \in 1..Len(probe.reviews) : probe.reviews[i].user = u}
        /\ probe.user \notin out.result.reviewers

\* The author is a requested reviewer and reviewed their own pull request;
\* someone else was requested, and a third user reviewed.
C6_Witness ==
    /\ out.fn = "_get_pr_meta_info"
    /\ probe.user \in probe.requested
    /\ \E i \in 1..Len(probe.reviews) : probe.reviews[i].user = probe.user
    /\ Cardinality(probe.requested) = 2
    /\ Cardinality(out.result.reviewers) = 2

----------------------------------------------------------------------------
(* Properties of the instance, under Spec. *)

DownloadReturned == report.op = "download" /\ report.ok

InList(pr, list) == \E i \in 1..Len(list) : list[i] = pr

IsTeamMember(pr) == pr.user \in team_users[1]

EndsWithColonMain(label) ==
    /\ Len(label) >= 5
    /\ label[Len(label) - 4] = ":"
    /\ label[Len(label) - 3] = "m"
    /\ label[Len(label) - 2] = "a"
    /\ label[Len(label) - 1] = "i"
    /\ label[Len(label)] = "n"

\* C1: when download() has returned, valid_prs holds exactly the fetched pull
\* requests whose author is in the team and whose base label ends with
\* ":main", in fetch order, and no other fetched pull request is in valid_prs
\* or is a key of pr_to_meta.
C1_ValidPrsAndMetaKeysAreTheQualifyingPrs ==
    DownloadReturned =>
        /\ valid_prs[1] = SelectSeq(prs[1], LAMBDA pr :
                              IsTeamMember(pr) /\ EndsWithColonMain(pr.base_label))
        /\ \A i \in 1..Len(prs[1]) :
              ~(IsTeamMember(prs[1][i]) /\ EndsWithColonMain(prs[1][i].base_label)) =>
                  /\ ~InList(prs[1][i], valid_prs[1])
                  /\ ~HasMeta(pr_to_meta, prs[1][i])

\* C2 as stated: a team member's pull request with base label
\* "refs/heads/main" is in valid_prs, one with "refs/heads/dev" is not, and a
\* pull request by a user outside the team is not, whatever its base label.
C2_RefsHeadsMainIncluded ==
    DownloadReturned =>
        \A i \in 1..Len(prs[1]) :
            LET pr == prs[1][i]
            IN  /\ (IsTeamMember(pr) /\ pr.base_label = LabelRefsHeadsMain)
                       => InList(pr, valid_prs[1])
                /\ (IsTeamMember(pr) /\ pr.base_label = LabelRefsHeadsDev)
                       => ~InList(pr, valid_prs[1])
                /\ ~IsTeamMember(pr) => ~InList(pr, valid_prs[1])

\* C2, amended: a team member's pull request with base label "o:main" (owner,
\* colon, main) is in valid_prs; one with "refs/heads/main", which does not
\* end with ":main", is not, nor is one with "refs/heads/dev"; a pull request
\* by a user outside the team is not, whatever its base label.
C2_OwnerMainIncludedRefsHeadsMainExcluded ==
    DownloadReturned =>
        \A i \in 1..Len(prs[1]) :
            LET pr == prs[1][i]
            IN  /\ (IsTeamMember(pr) /\ pr.base_label = LabelOwnerMain)
                       => InList(pr, valid_prs[1])
                /\ (IsTeamMember(pr) /\ pr.base_label = LabelRefsHeadsMain)
                       => ~InList(pr, valid_prs[1])
                /\ (IsTeamMember(pr) /\ pr.base_label = LabelRefsHeadsDev)
                       => ~InList(pr, valid_prs[1])
                /\ ~IsTeamMember(pr) => ~InList(pr, valid_prs[1])

\* download() has returned with a team member's pull request on "o:main"
\* kept and another team member's pull request on "refs/heads/main" dropped.
C2_Witness ==
    /\ DownloadReturned
    /\ \E i, j \in 1..Len(prs[1]) :
          /\ IsTeamMember(prs[1][i])
          /\ prs[1][i].base_label = LabelOwnerMain
          /\ InList(prs[1][i], valid_prs[1])
          /\ IsTeamMember(prs[1][j])
          /\ prs[1][j].base_label = LabelRefsHeadsMain
          /\ ~InList(prs[1][j], valid_prs[1])

KeyIds(map) == {map[i].pr.id : i \in 1..Len(map)}

ListIds(list) == {list[i].id : i \in 1..Len(list)}

\* C7: over any sequence of calls, an entry of pr_to_meta is never replaced
\* or changed once stored, and the keys of pr_to_meta are exactly the pull
\* requests of valid_prs.
C7_MetaStoredOnceAndKeysAreValidPrs ==
    [][/\ \A i \in 1..Len(pr_to_meta) :
             /\ i <= Len(pr_to_meta')
             /\ pr_to_meta'[i] = pr_to_meta[i]
       /\ KeyIds(pr_to_meta')
            = (IF valid_prs' = None THEN {} ELSE ListIds(valid_prs'[1]))]_vars

\* C8: a download() that raises leaves repo, team_users, prs, valid_prs and
\* pr_to_meta as they were before the call.
C8_FailedDownloadLeavesNoPartialSnapshot ==
    [][(report'.op = "download" /\ ~report'.ok) => UNCHANGED snapshot]_vars

\* C9: a reporting call, whether it returns or raises, leaves repo,
\* team_users, prs, valid_prs and pr_to_meta unchanged.
C9_ReportsLeaveSnapshotUnchanged ==
    [][report'.op \in ReportOps => UNCHANGED snapshot]_vars

\* A report has returned a table with a row in it, read from a snapshot that
\* holds metadata.
C9_Witness ==
    /\ report.op = "plot_review_passes_by_author_boxplot"
    /\ report.ok
    /\ pr_to_meta # <<>>
    /\ Len(report.df) > 0

\* pr_to_meta holds the metadata of exactly the pull requests of valid_prs.
SnapshotComplete ==
    /\ valid_prs # None
    /\ KeyIds(pr_to_meta) = ListIds(valid_prs[1])

\* C10: the table of plot_review_passes_by_reviewer_boxplot has exactly one
\* row per pair of a merged pull request of valid_prs and a reviewer of it
\* who is in the team, with the pull request's review_passes and the
\* reviewer's login.
C10_ReviewerBoxplotRowsArePerReviewer ==
    (/\ report.op = "plot_review_passes_by_reviewer_boxplot"
     /\ report.ok
     /\ SnapshotComplete) =>
        \A u \in Users, n \in 0..MaxEvents :
            Cardinality({k \in 1..Len(report.df) : report.df[k] = <<n, u>>})
              = Cardinality({i \in 1..Len(MergedValidPrs) :
                    /\ u \in TeamReviewers(MetaOf(pr_to_meta, MergedValidPrs[i]))
                    /\ MetaOf(pr_to_meta, MergedValidPrs[i]).review_passes = n})

====
